---- MODULE Spec2Model ----
(***************************************************************************)
(* Order processing and real-time notification subsystem of the digital    *)
(* menu backend (backend/apps/orders, backend/apps/users).                 *)
(*                                                                         *)
(* Money is counted in whole currency units; an e-mail address is the pair *)
(* <<local part, domain part>>.  The receivers of signals.py are taken to  *)
(* be connected to post_save / post_delete of Order.  The database         *)
(* compares text columns exactly (SQLite, PostgreSQL).                     *)
(*                                                                         *)
(* The specifications share the state:                                     *)
(*   Spec       the order API, one guest checkout at a time, order delete  *)
(*   SpecItems  order creation and the admin's edits of order items        *)
(*   SpecGuest  guest checkouts running concurrently                       *)
(*   SpecRead   the order API of authenticated users with its reads        *)
(*   SpecPublish  the order API with a channel layer that may raise        *)
(*   SpecMail   the requests that start e-mail threads, and the threads    *)
(*   SpecWs     websocket connections coming and going                     *)
(*   SpecThrottle  guest checkouts behind their throttle, with a clock     *)
(*   SpecStatus the status updates, with any text submitted as status      *)
(*   SpecPrice  order creation while catalog prices change                 *)
(*   SpecRace   status requests of two workers, read and write apart       *)
(*   SpecCommit guest checkout with the commit of its transaction apart    *)
(*   SpecAdmin  the status updates of the API and of the admin change form *)
(*   SpecReceive websocket connections with the frames they receive        *)
(***************************************************************************)
EXTENDS Integers, Sequences, FiniteSets, TLC

(***************************************************************************)
(* Bounds of the model.                                                    *)
(***************************************************************************)
MaxOrders == 1          \* order rows ever inserted
MaxUsers  == 4          \* user rows ever inserted (two exist initially)
MaxConns  == 3          \* websocket connections

Procs == {1, 2}         \* guest-checkout requests that may be in flight

(***************************************************************************)
(* Order.STATUS_CHOICES plus the values the views write and test           *)
(***************************************************************************)
STATUS_CHOICES == {"pending", "confirmed", "completed", "cancelled"}
Statuses       == STATUS_CHOICES \cup {"draft"}
NoKey          == "<absent>"     \* request.data has no 'status' key
PatchValues    == Statuses \cup {NoKey}
\* the same with a text that names no status
AnyPatchValues == PatchValues \cup {"shipped"}

(***************************************************************************)
(* Catalog (products.Product): price and availability by product id.       *)
(* Product 9 does not exist.  The prices are those of the initial state.   *)
(***************************************************************************)
Catalog ==
    (1 :> [price |-> 5, available |-> TRUE]) @@
    (2 :> [price |-> 3, available |-> TRUE]) @@
    (3 :> [price |-> 4, available |-> FALSE])

\* request payloads for the 'items' field
ItemLists ==
    { <<>>,
      << [product |-> 1, quantity |-> 2], [product |-> 2, quantity |-> 1] >>,
      << [product |-> 3, quantity |-> 1] >>,
      << [product |-> 9, quantity |-> 1] >>,
      << [product |-> 2, quantity |-> 0] >> }

\* values the admin form accepts for an item (MinValueValidator(1), > 0)
AdminQuantities == {1, 2}
AdminPrices     == {3, 5}

Phones == {"p1", "p2"}

\* guest_email values submitted to guest checkout
GuestEmails ==
    { <<"g", "y.com">>, <<"g", "Y.com">>, <<"c", "y.com">>, <<"c", "Y.com">> }

VARIABLES
    users,       \* users_users table: id -> row
    orders,      \* orders table with the order_items of each order: id -> row
    nextUser,    \* next user primary key
    nextOrder,   \* next order primary key
    guest,       \* guest-checkout requests in flight: proc -> local state
    guestOf,     \* history: submitted guest e-mail -> principal of the last
                 \*          guest checkout that succeeded with it (0: none)
    sent,        \* messages handed to channel_layer.group_send by the last step
    mail,        \* e-mail threads started by the last request, each with
                 \*          how far it has got
    lastReq,     \* the request handled by the last step and its response:
                 \*   [op, actor (0: anonymous), order (0: none),
                 \*    arg (submitted status), email (submitted guest_email),
                 \*    code (HTTP status, 0 while the request is running),
                 \*    rows (ids of the orders serialized by a list/retrieve),
                 \*    raised (exception that escaped from the view, "": none),
                 \*    detail (which validation of the items failed, "": none)]
    conns,       \* websocket connections: id -> state of its OrderConsumer
    groups,      \* channel layer: the <<group, connection>> memberships
    now,         \* the clock, in parts of an hour
    cache,       \* throttle cache: caller IP -> times of its counted requests,
                 \*          the latest first
    price,       \* products table: product id -> current price
    loaded       \* status requests in flight: proc -> what the view has read

vars == <<users, orders, nextUser, nextOrder, guest, guestOf, sent, mail, lastReq,
          conns, groups, now, cache, price, loaded>>

(***************************************************************************)
(* BaseUserManager.normalize_email: lower-cases the domain part only.      *)
(***************************************************************************)
Lower(d) == IF d = "Y.com" THEN "y.com" ELSE d

normalize_email(e) == <<e[1], Lower(e[2])>>

(***************************************************************************)
(* User.objects.filter(email=...).first(): exact comparison of the stored  *)
(* column with the submitted string; 0 stands for None.                    *)
(***************************************************************************)
FindByEmail(us, e) ==
    IF \E u \in DOMAIN us : us[u].email = e
    THEN CHOOSE u \in DOMAIN us : us[u].email = e
    ELSE 0

\* faulty variant: the column without its unique constraint
UniqueEmailNotEnforced(us, e) == TRUE

\* unique=True on User.email: the insert of a row with this e-mail is accepted
UniqueEmailOK(us, e) == \A u \in DOMAIN us : us[u].email # e

(***************************************************************************)
(* OrderItem.save: the subtotal is recomputed from quantity and unit price *)
(* on every save of the row.                                               *)
(***************************************************************************)
\* faulty variant: a save that does not recompute the subtotal
OrderItemSaveKeepsSubtotal(item) == item

OrderItemSave(item) ==
    [item EXCEPT !.subtotal = item.quantity * item.unit_price]

\* OrderItem.objects.create(order, product, quantity, unit_price=product.price)
NewItem(d) ==
    OrderItemSave([product    |-> d.product,
                   quantity   |-> d.quantity,
                   unit_price |-> price[d.product],
                   subtotal   |-> 0])

RECURSIVE SumSubtotals(_)
SumSubtotals(items) ==
    IF items = <<>> THEN 0
    ELSE Head(items).subtotal + SumSubtotals(Tail(items))

\* Order.calculate_total: sum of the subtotals of the order's current items
calculate_total(row) ==
    [row EXCEPT !.total_price = SumSubtotals(row.items)]

(***************************************************************************)
(* OrderCreateSerializer.validate_items: the first failure decides.        *)
(***************************************************************************)
\* faulty variant: availability is not looked at
ValidateItemAnyProduct(d) ==
    IF d.product \notin DOMAIN Catalog THEN "not_found"
    ELSE IF d.quantity < 1 THEN "quantity"
    ELSE "ok"

ValidateItem(d) ==
    IF d.product \notin DOMAIN Catalog THEN "not_found"
    ELSE IF ~Catalog[d.product].available THEN "not_available"
    ELSE IF d.quantity < 1 THEN "quantity"
    ELSE "ok"

RECURSIVE FirstFailure(_)
FirstFailure(value) ==
    IF value = <<>> THEN "ok"
    ELSE IF ValidateItem(Head(value)) # "ok" THEN ValidateItem(Head(value))
    ELSE FirstFailure(Tail(value))

validate_items(value) ==
    IF value = <<>> THEN "empty" ELSE FirstFailure(value)

(***************************************************************************)
(* signals.order_notification (post_save of Order): nothing for a draft;   *)
(* otherwise the same payload to 'orders_staff' and to the owner's group.  *)
(***************************************************************************)
StaffGroup   == <<"orders_staff", 0>>
UserGroup(u) == <<"orders_user", u>>

\* faulty variant: the action follows the created flag alone
SaveActionByCreatedOnly(created, status) ==
    IF created THEN "created" ELSE "updated"

SaveAction(created, status) ==
    IF ~created /\ status = "pending" THEN "created"
    ELSE IF created THEN "created" ELSE "updated"

SkipNotification(row) == row.status = "draft"

\* faulty variant: the owner's group is left out
order_notification_staff_only(o, row, created) ==
    IF SkipNotification(row) THEN <<>>
    ELSE << [group |-> StaffGroup,
             data  |-> [action      |-> SaveAction(created, row.status),
                        order_id    |-> o,
                        status      |-> row.status,
                        total_price |-> row.total_price,
                        user        |-> row.user,
                        items_count |-> Len(row.items)]] >>

order_notification(o, row, created) ==
    IF SkipNotification(row) THEN <<>>
    ELSE LET data == [action      |-> SaveAction(created, row.status),
                      order_id    |-> o,
                      status      |-> row.status,
                      total_price |-> row.total_price,
                      user        |-> row.user,
                      items_count |-> Len(row.items)]
         IN  << [group |-> StaffGroup,          data |-> data],
                [group |-> UserGroup(row.user), data |-> data] >>

\* signals.order_deleted_notification (post_delete of Order)
order_deleted_notification(o, row) ==
    LET data == [action |-> "deleted", order_id |-> o, user_id |-> row.user]
    IN  << [group |-> StaffGroup,          data |-> data],
           [group |-> UserGroup(row.user), data |-> data] >>

(***************************************************************************)
(* OrderCreateSerializer.create: the order row is inserted with the model  *)
(* default status and total 0 (post_save, created), its items are          *)
(* inserted, the total is computed and the row saved again (post_save).    *)
(* Yields the final row and the messages of the two saves.                 *)
(***************************************************************************)
DefaultStatus == "pending"

\* Order.objects.create(**validated_data): the row as first inserted
NewOrderRow(user) ==
    [user |-> user, status |-> DefaultStatus, total_price |-> 0, items |-> <<>>]

SerializerCreate(o, user, items) ==
    LET row0 == NewOrderRow(user)
        row1 == [row0 EXCEPT !.items = [i \in 1..Len(items) |-> NewItem(items[i])]]
        row2 == calculate_total(row1)
    IN  [row  |-> row2,
         msgs |-> order_notification(o, row0, TRUE)
                  \o order_notification(o, row2, FALSE)]

NoEmail == <<"", "">>

\* no status request is running in this process
NoRequest == [pc |-> "idle", op |-> "", actor |-> 0, order |-> 0, arg |-> "",
              row |-> [status |-> ""]]

\* threading.Thread(target=task, daemon=True).start()
Thread(task) == [task |-> task, state |-> "started"]

Response(op, actor, o, arg, email, code) ==
    [op |-> op, actor |-> actor, order |-> o, arg |-> arg,
     email |-> email, code |-> code, rows |-> {}, raised |-> "", detail |-> ""]

\* a response that leaves the database as it was and publishes nothing
Reject(op, actor, o, arg, code) ==
    /\ lastReq' = Response(op, actor, o, arg, NoEmail, code)
    /\ sent' = <<>>
    /\ mail' = <<>>
    /\ UNCHANGED <<users, orders, nextUser, nextOrder, guest, guestOf, conns, groups, now, cache, price, loaded>>

(***************************************************************************)
(* OrderViewSet.create (POST /api/orders/) by an authenticated user.       *)
(***************************************************************************)
CreateOrder(a, items) ==
    /\ a \in DOMAIN users
    /\ \/ /\ validate_items(items) # "ok"
          /\ lastReq' = [Response("create", a, 0, "", NoEmail, 400) EXCEPT
                             !.detail = validate_items(items)]
          /\ sent' = <<>>
          /\ mail' = <<>>
          /\ UNCHANGED <<users, orders, nextUser, nextOrder, guest, guestOf,
                         conns, groups, now, cache, price, loaded>>
       \/ /\ validate_items(items) = "ok"
          /\ nextOrder <= MaxOrders
          /\ LET made == SerializerCreate(nextOrder, a, items)
             IN  /\ orders' = (nextOrder :> made.row) @@ orders
                 /\ sent' = made.msgs
          /\ nextOrder' = nextOrder + 1
          /\ mail' = <<>>
          /\ lastReq' = Response("create", a, nextOrder, "", NoEmail, 201)
          /\ UNCHANGED <<users, nextUser, guest, guestOf, conns, groups, now, cache, price, loaded>>

(***************************************************************************)
(* OrderViewSet.get_queryset / get_object: staff see every order that is   *)
(* not a draft, everybody else their own orders.                           *)
(***************************************************************************)
InQueryset(a, o) ==
    /\ o \in DOMAIN orders
    /\ IF users[a].is_staff THEN orders[o].status # "draft"
                            ELSE orders[o].user = a

\* faulty variants of the two guards below: 'and' for 'or'; one status more
OwnerMayPatchEither(cur, new) == ~(cur # "draft" /\ new # "pending")

OwnerMayCancelCompleted(cur) == cur \in {"pending", "confirmed", "completed"}

\* the two self-service guards of the views
OwnerMayPatch(cur, new) == ~(cur # "draft" \/ new # "pending")
OwnerMayCancel(cur)     == cur \in {"pending", "confirmed"}

(***************************************************************************)
(* OrderViewSet.partial_update (PATCH /api/orders/<o>/), v the submitted   *)
(* 'status' or NoKey.                                                      *)
(***************************************************************************)
PartialUpdate(a, o, v) ==
    /\ a \in DOMAIN users
    /\ IF ~InQueryset(a, o) THEN Reject("partial_update", a, o, v, 404)
       ELSE IF ~users[a].is_staff /\ orders[o].user # a
            THEN Reject("partial_update", a, o, v, 403)
       ELSE IF ~users[a].is_staff /\ ~OwnerMayPatch(orders[o].status, v)
            THEN Reject("partial_update", a, o, v, 403)
       ELSE /\ IF v # NoKey
               THEN LET row == [orders[o] EXCEPT !.status = v]
                    IN  /\ orders' = [orders EXCEPT ![o] = row]
                        /\ sent' = order_notification(o, row, FALSE)
               ELSE /\ orders' = orders
                    /\ sent' = <<>>
            /\ mail' = <<>>
            /\ lastReq' = Response("partial_update", a, o, v, NoEmail, 200)
            /\ UNCHANGED <<users, nextUser, nextOrder, guest, guestOf, conns, groups, now, cache, price, loaded>>

(***************************************************************************)
(* OrderViewSet.cancel (POST /api/orders/<o>/cancel/).                     *)
(***************************************************************************)
Cancel(a, o) ==
    /\ a \in DOMAIN users
    /\ IF ~InQueryset(a, o) THEN Reject("cancel", a, o, "", 404)
       ELSE IF orders[o].user # a THEN Reject("cancel", a, o, "", 403)
       ELSE IF ~OwnerMayCancel(orders[o].status) THEN Reject("cancel", a, o, "", 400)
       ELSE LET row == [orders[o] EXCEPT !.status = "cancelled"]
            IN  /\ orders' = [orders EXCEPT ![o] = row]
                /\ sent' = order_notification(o, row, FALSE)
                /\ mail' = << Thread("send_cancellation_notifications") >>
                /\ lastReq' = Response("cancel", a, o, "", NoEmail, 200)
                /\ UNCHANGED <<users, nextUser, nextOrder, guest, guestOf, conns, groups, now, cache, price, loaded>>

(***************************************************************************)
(* OrderViewSet.retrieve (GET /api/orders/<o>/) and the list action of the *)
(* viewset (GET /api/orders/): both read through get_queryset and change   *)
(* nothing.                                                                *)
(***************************************************************************)
Retrieve(a, o) ==
    /\ a \in DOMAIN users
    /\ IF ~InQueryset(a, o) THEN Reject("retrieve", a, o, "", 404)
       ELSE IF orders[o].user # a /\ ~users[a].is_staff
            THEN Reject("retrieve", a, o, "", 403)
       ELSE /\ lastReq' = [Response("retrieve", a, o, "", NoEmail, 200)
                               EXCEPT !.rows = {o}]
            /\ sent' = <<>>
            /\ mail' = <<>>
            /\ UNCHANGED <<users, orders, nextUser, nextOrder, guest, guestOf, conns, groups, now, cache, price, loaded>>

List(a) ==
    /\ a \in DOMAIN users
    /\ lastReq' = [Response("list", a, 0, "", NoEmail, 200)
                      EXCEPT !.rows = {o \in DOMAIN orders : InQueryset(a, o)}]
    /\ sent' = <<>>
    /\ mail' = <<>>
    /\ UNCHANGED <<users, orders, nextUser, nextOrder, guest, guestOf, conns, groups, now, cache, price, loaded>>

(***************************************************************************)
(* OrderViewSet.guest_checkout (POST /api/orders/guest_checkout/), run in  *)
(* one database transaction.  A request first reads the user table         *)
(* (GuestLookup) and later writes and commits (GuestCommit); requests of   *)
(* other clients may commit in between.  The phone and the items of the    *)
(* request are not looked at before the second step and are drawn there.   *)
(* GuestCheckout is the request run without interruption.                  *)
(***************************************************************************)
Idle == [pc |-> "idle", email |-> NoEmail, existing |-> 0, prior |-> 0]

EndGuest(p, e, code) ==
    /\ guest' = [guest EXCEPT ![p] = Idle]
    /\ lastReq' = [Response("guest_checkout", 0, 0, "", e, code) EXCEPT
                       !.raised = IF code = 500 THEN "IntegrityError" ELSE ""]
    /\ sent' = <<>>
    /\ mail' = <<>>
    /\ UNCHANGED <<users, orders, nextUser, nextOrder, guestOf, conns, groups, price, loaded>>

\* the guest fields are complete and the e-mail is that of no full account:
\* what the request knows after the lookup
Conflict(e) ==
    LET existing_user == FindByEmail(users, e)
    IN  existing_user # 0 /\ users[existing_user].role # "guest"

Resolved(e) ==
    [pc |-> "resolved", email |-> e,
     existing |-> FindByEmail(users, e), prior |-> guestOf[e]]

\* complete: guest_name, guest_email and guest_phone are all non-empty
GuestLookup(p, e, complete) ==
    /\ guest[p].pc = "idle"
    /\ IF ~complete THEN EndGuest(p, e, 400)
       ELSE IF Conflict(e) THEN EndGuest(p, e, 409)
       ELSE /\ guest' = [guest EXCEPT ![p] = Resolved(e)]
            /\ lastReq' = Response("guest_checkout", 0, 0, "", e, 0)
            /\ sent' = <<>>
            /\ mail' = <<>>
            /\ UNCHANGED <<users, orders, nextUser, nextOrder, guestOf, conns, groups, price, loaded>>
    /\ UNCHANGED <<now, cache>>

\* User.objects.create_user(...) followed by role, phone and save()
NewGuest(e, phone) ==
    [email |-> normalize_email(e), role |-> "guest",
     is_staff |-> FALSE, phone |-> phone]

\* the rest of the request, g what it knows after the lookup
GuestWrites(p, g, phone, items) ==
    /\ LET reuse     == g.existing # 0
           principal == IF reuse THEN g.existing ELSE nextUser
           users1    == IF reuse
                        THEN [users EXCEPT ![principal].phone = phone]
                        ELSE (nextUser :> NewGuest(g.email, phone)) @@ users
       IN  \/ /\ ~reuse
              /\ ~UniqueEmailOK(users, normalize_email(g.email))
              /\ EndGuest(p, g.email, 500)                     \* IntegrityError
           \/ /\ reuse \/ UniqueEmailOK(users, normalize_email(g.email))
              /\ validate_items(items) # "ok"                  \* rolled back
              /\ guest' = [guest EXCEPT ![p] = Idle]
              /\ lastReq' = [Response("guest_checkout", 0, 0, "", g.email, 400)
                                 EXCEPT !.detail = validate_items(items)]
              /\ sent' = <<>>
              /\ mail' = <<>>
              /\ UNCHANGED <<users, orders, nextUser, nextOrder, guestOf,
                             conns, groups, price, loaded>>
           \/ /\ reuse \/ UniqueEmailOK(users, normalize_email(g.email))
              /\ validate_items(items) = "ok"
              /\ nextOrder <= MaxOrders
              /\ reuse \/ nextUser <= MaxUsers
              /\ LET made == SerializerCreate(nextOrder, principal, items)
                     row  == [made.row EXCEPT !.status = "pending"]
                 IN  /\ orders' = (nextOrder :> row) @@ orders
                     /\ sent' = made.msgs
                                \o order_notification(nextOrder, row, FALSE)
              /\ users' = users1
              /\ nextUser' = IF reuse THEN nextUser ELSE nextUser + 1
              /\ nextOrder' = nextOrder + 1
              /\ guestOf' = [guestOf EXCEPT ![g.email] = principal]
              /\ guest' = [guest EXCEPT ![p] = Idle]
              /\ mail' = << Thread("send_guest_notifications") >>
              /\ lastReq' = Response("guest_checkout", 0, nextOrder, "", g.email, 201)
              /\ UNCHANGED <<conns, groups, price, loaded>>

GuestCommit(p, phone, items) ==
    /\ guest[p].pc = "resolved"
    /\ GuestWrites(p, guest[p], phone, items)
    /\ UNCHANGED <<now, cache>>

\* the whole request with no other request in between
GuestCheckout(p, e, complete, phone, items) ==
    /\ guest[p].pc = "idle"
    /\ IF ~complete THEN EndGuest(p, e, 400)
       ELSE IF Conflict(e) THEN EndGuest(p, e, 409)
       ELSE GuestWrites(p, Resolved(e), phone, items)
    /\ UNCHANGED <<now, cache>>

(***************************************************************************)
(* guest_checkout with its commit as a step of its own.  The view body     *)
(* runs inside transaction.atomic: the post_save receivers publish and the *)
(* e-mail thread is started while the rows are written but not committed   *)
(* (GuestRunsInTransaction, tx the uncommitted rows); the commit follows   *)
(* when the body has returned (GuestTransactionCommits).  A body that      *)
(* fails does so before its first save and is as in GuestWrites.           *)
(***************************************************************************)
GuestRunsInTransaction(p, e, complete, phone, items) ==
    /\ guest[p].pc = "idle"
    /\ IF ~complete THEN EndGuest(p, e, 400)
       ELSE IF Conflict(e) THEN EndGuest(p, e, 409)
       ELSE LET g         == Resolved(e)
                reuse     == g.existing # 0
                unique    == reuse \/ UniqueEmailOK(users, normalize_email(e))
                principal == IF reuse THEN g.existing ELSE nextUser
                failing   == ~unique \/ validate_items(items) # "ok"
            IN  \/ /\ failing
                   /\ GuestWrites(p, g, phone, items)
                \/ /\ ~failing
                   /\ nextOrder <= MaxOrders
                   /\ reuse \/ nextUser <= MaxUsers
                   /\ LET made == SerializerCreate(nextOrder, principal, items)
                          row  == [made.row EXCEPT !.status = "pending"]
                      IN  /\ sent' = made.msgs
                                     \o order_notification(nextOrder, row, FALSE)
                          /\ guest' = [guest EXCEPT ![p] =
                                 [pc |-> "written", email |-> e,
                                  existing |-> g.existing, prior |-> g.prior,
                                  tx |-> [order |-> nextOrder, row |-> row,
                                          principal |-> principal,
                                          phone |-> phone]]]
                   /\ mail' = << Thread("send_guest_notifications") >>
                   /\ lastReq' = Response("guest_checkout", 0, nextOrder, "", e, 0)
                   /\ UNCHANGED <<users, orders, nextUser, nextOrder, guestOf,
                                  conns, groups, price, loaded>>
    /\ UNCHANGED <<now, cache>>

GuestTransactionCommits(p) ==
    LET g     == guest[p]
        reuse == g.existing # 0
    IN  /\ g.pc = "written"
        /\ orders' = (g.tx.order :> g.tx.row) @@ orders
        /\ users' = IF reuse
                    THEN [users EXCEPT ![g.tx.principal].phone = g.tx.phone]
                    ELSE (g.tx.principal :> NewGuest(g.email, g.tx.phone)) @@ users
        /\ nextUser' = IF reuse THEN nextUser ELSE nextUser + 1
        /\ nextOrder' = nextOrder + 1
        /\ guestOf' = [guestOf EXCEPT ![g.email] = g.tx.principal]
        /\ guest' = [guest EXCEPT ![p] = Idle]
        /\ lastReq' = Response("guest_checkout", 0, g.tx.order, "", g.email, 201)
        /\ UNCHANGED <<sent, mail, conns, groups, now, cache, price, loaded>>

(***************************************************************************)
(* GuestOrderThrottle on guest_checkout: an AnonRateThrottle with rate     *)
(* '5/hour'.  Its cache key is the caller's IP, and None for a request     *)
(* that carries the valid token of a user: such a request is let through   *)
(* uncounted.  For the others the recorded times not younger than an hour  *)
(* are dropped, the request is refused with 429 if NumRequests remain, and *)
(* otherwise its time is put in front and the view runs.                   *)
(***************************************************************************)
NumRequests == 5
Hour        == 2         \* clock steps in an hour
MaxTime     == 3         \* the clock stops here

IPs == {1, 2}

RECURSIVE DropExpired(_, _)
DropExpired(history, t) ==
    IF history # <<>> /\ history[Len(history)] <= t - Hour
    THEN DropExpired(SubSeq(history, 1, Len(history) - 1), t)
    ELSE history

\* SimpleRateThrottle.allow_request for a request with a cache key
AllowRequest(history, t) ==
    ~(Len(DropExpired(history, t)) >= NumRequests)

\* a: the user whose valid token the request carries, 0 if it carries none
ThrottledGuestCheckout(ip, a, e, complete, phone, items) ==
    /\ a = 0 \/ a \in DOMAIN users
    /\ guest[1].pc = "idle"
    /\ IF a = 0 /\ ~AllowRequest(cache[ip], now)
       THEN /\ lastReq' = Response("guest_checkout", 0, 0, "", e, 429)
            /\ sent' = <<>>
            /\ mail' = <<>>
            /\ UNCHANGED <<users, orders, nextUser, nextOrder, guest, guestOf,
                           conns, groups, cache, price, loaded>>
       ELSE /\ cache' = IF a = 0
                        THEN [cache EXCEPT ![ip] = <<now>> \o DropExpired(@, now)]
                        ELSE cache
            /\ IF ~complete THEN EndGuest(1, e, 400)
               ELSE IF Conflict(e) THEN EndGuest(1, e, 409)
               ELSE GuestWrites(1, Resolved(e), phone, items)
    /\ now' = now

Tick ==
    /\ now < MaxTime
    /\ now' = now + 1
    /\ UNCHANGED <<users, orders, nextUser, nextOrder, guest, guestOf, sent, mail,
                   lastReq, conns, groups, cache, price, loaded>>

(***************************************************************************)
(* OrderViewSet.send_confirmation (POST /api/orders/send_confirmation/).   *)
(* configured: Company.objects.first() exists and has an e-mail;           *)
(* given: the request body has a non-empty 'user_email'.                   *)
(***************************************************************************)
SendConfirmation(a, configured, given) ==
    /\ a \in DOMAIN users
    /\ IF ~configured THEN Reject("send_confirmation", a, 0, "", 400)
       ELSE IF ~given /\ users[a].email = NoEmail
            THEN Reject("send_confirmation", a, 0, "", 400)
       ELSE /\ lastReq' = Response("send_confirmation", a, 0, "", NoEmail, 200)
            /\ mail' = << Thread("send_emails_async") >>
            /\ sent' = <<>>
            /\ UNCHANGED <<users, orders, nextUser, nextOrder, guest, guestOf, conns, groups, now, cache, price, loaded>>

(***************************************************************************)
(* The body of a started e-mail thread (send_cancellation_notifications,   *)
(* send_guest_notifications, send_emails_async): it reads the company,     *)
(* calls the e-mail service and prints what it caught.  It runs after the  *)
(* view has returned; a thread that never gets this far takes no step.     *)
(***************************************************************************)
\* faulty variant: the exception reaches the request
EmailTaskRaisesUncaught(i) ==
    /\ i \in 1..Len(mail)
    /\ mail[i].state = "started"
    /\ mail' = [mail EXCEPT ![i].state = "failed"]
    /\ lastReq' = [lastReq EXCEPT !.code = 500]
    /\ sent' = <<>>
    /\ UNCHANGED <<users, orders, nextUser, nextOrder, guest, guestOf, conns, groups, now, cache, price, loaded>>

EmailTaskSucceeds(i) ==
    /\ i \in 1..Len(mail)
    /\ mail[i].state = "started"
    /\ mail' = [mail EXCEPT ![i].state = "done"]
    /\ sent' = <<>>
    /\ UNCHANGED <<users, orders, nextUser, nextOrder, guest, guestOf, lastReq, conns, groups, now, cache, price, loaded>>

EmailTaskRaises(i) ==
    /\ i \in 1..Len(mail)
    /\ mail[i].state = "started"
    /\ mail' = [mail EXCEPT ![i].state = "failed"]
    /\ sent' = <<>>
    /\ UNCHANGED <<users, orders, nextUser, nextOrder, guest, guestOf, lastReq, conns, groups, now, cache, price, loaded>>

(***************************************************************************)
(* The same requests when channel_layer.group_send raises (the transport   *)
(* is down, or no channel layer is configured).  The receivers call it     *)
(* outside any try block, so the exception leaves Model.save() after the   *)
(* row is written, and leaves the view: the answer is 500.  Outside        *)
(* guest_checkout each save is committed on its own; guest_checkout is one *)
(* transaction, which is rolled back.                                      *)
(***************************************************************************)
PublishRaised(op, actor, o, arg, email) ==
    /\ lastReq' = [Response(op, actor, o, arg, email, 500) EXCEPT
                       !.raised = "publish"]
    /\ sent' = <<>>
    /\ mail' = <<>>

CreateOrderPublishRaises(a, items) ==
    /\ a \in DOMAIN users
    /\ validate_items(items) = "ok"
    /\ nextOrder <= MaxOrders
    /\ orders' = (nextOrder :> NewOrderRow(a)) @@ orders
    /\ nextOrder' = nextOrder + 1
    /\ PublishRaised("create", a, nextOrder, "", NoEmail)
    /\ UNCHANGED <<users, nextUser, guest, guestOf, conns, groups, now, cache, price, loaded>>

PartialUpdatePublishRaises(a, o, v) ==
    /\ a \in DOMAIN users
    /\ InQueryset(a, o)
    /\ users[a].is_staff \/ (orders[o].user = a /\ OwnerMayPatch(orders[o].status, v))
    /\ v # NoKey
    /\ LET row == [orders[o] EXCEPT !.status = v]
       IN  /\ ~SkipNotification(row)
           /\ orders' = [orders EXCEPT ![o] = row]
    /\ PublishRaised("partial_update", a, o, v, NoEmail)
    /\ UNCHANGED <<users, nextUser, nextOrder, guest, guestOf, conns, groups, now, cache, price, loaded>>

CancelPublishRaises(a, o) ==
    /\ a \in DOMAIN users
    /\ InQueryset(a, o)
    /\ orders[o].user = a
    /\ OwnerMayCancel(orders[o].status)
    /\ orders' = [orders EXCEPT ![o].status = "cancelled"]
    /\ PublishRaised("cancel", a, o, "", NoEmail)
    /\ UNCHANGED <<users, nextUser, nextOrder, guest, guestOf, conns, groups, now, cache, price, loaded>>

GuestCheckoutPublishRaises(p, e, complete, items) ==
    /\ guest[p].pc = "idle"
    /\ complete
    /\ ~Conflict(e)
    /\ FindByEmail(users, e) # 0 \/ UniqueEmailOK(users, normalize_email(e))
    /\ validate_items(items) = "ok"
    /\ PublishRaised("guest_checkout", 0, 0, "", e)
    /\ UNCHANGED <<users, orders, nextUser, nextOrder, guest, guestOf, conns, groups, now, cache, price, loaded>>

(***************************************************************************)
(* partial_update and cancel as the two database accesses they are, run by *)
(* worker p: get_object() reads the row into the instance; the checks are  *)
(* made on the instance; instance.save() writes every column of the        *)
(* instance.  No transaction and no row lock span the two, so requests of  *)
(* other workers may commit in between.                                    *)
(***************************************************************************)
LoadStatusRequest(p, op, a, o, v) ==
    /\ a \in DOMAIN users
    /\ loaded[p].pc = "idle"
    /\ IF ~InQueryset(a, o) THEN Reject(op, a, o, v, 404)
       ELSE /\ loaded' = [loaded EXCEPT ![p] =
                            [pc |-> "loaded", op |-> op, actor |-> a, order |-> o,
                             arg |-> v, row |-> orders[o]]]
            /\ UNCHANGED <<users, orders, nextUser, nextOrder, guest, guestOf, sent,
                           mail, lastReq, conns, groups, now, cache, price>>

LoadPartialUpdate(p, a, o, v) == LoadStatusRequest(p, "partial_update", a, o, v)

LoadCancel(p, a, o) == LoadStatusRequest(p, "cancel", a, o, "")

\* the request of worker p answers with code and writes nothing
RefuseLoaded(p, code) ==
    /\ lastReq' = Response(loaded[p].op, loaded[p].actor, loaded[p].order,
                           loaded[p].arg, NoEmail, code)
    /\ sent' = <<>>
    /\ mail' = <<>>
    /\ orders' = orders

FinishPartialUpdate(p) ==
    LET r == loaded[p]
        a == r.actor
        o == r.order
        v == r.arg
    IN  /\ r.pc = "loaded"
        /\ r.op = "partial_update"
        /\ IF ~users[a].is_staff /\ r.row.user # a THEN RefuseLoaded(p, 403)
           ELSE IF ~users[a].is_staff /\ ~OwnerMayPatch(r.row.status, v)
                THEN RefuseLoaded(p, 403)
           ELSE /\ IF v # NoKey
                   THEN LET row == [r.row EXCEPT !.status = v]
                        IN  /\ orders' = [orders EXCEPT ![o] = row]
                            /\ sent' = order_notification(o, row, FALSE)
                   ELSE /\ orders' = orders
                        /\ sent' = <<>>
                /\ mail' = <<>>
                /\ lastReq' = Response("partial_update", a, o, v, NoEmail, 200)
        /\ loaded' = [loaded EXCEPT ![p] = NoRequest]
        /\ UNCHANGED <<users, nextUser, nextOrder, guest, guestOf, conns, groups,
                       now, cache, price>>

FinishCancel(p) ==
    LET r == loaded[p]
        a == r.actor
        o == r.order
    IN  /\ r.pc = "loaded"
        /\ r.op = "cancel"
        /\ IF r.row.user # a THEN RefuseLoaded(p, 403)
           ELSE IF ~OwnerMayCancel(r.row.status) THEN RefuseLoaded(p, 400)
           ELSE LET row == [r.row EXCEPT !.status = "cancelled"]
                IN  /\ orders' = [orders EXCEPT ![o] = row]
                    /\ sent' = order_notification(o, row, FALSE)
                    /\ mail' = << Thread("send_cancellation_notifications") >>
                    /\ lastReq' = Response("cancel", a, o, "", NoEmail, 200)
        /\ loaded' = [loaded EXCEPT ![p] = NoRequest]
        /\ UNCHANGED <<users, nextUser, nextOrder, guest, guestOf, conns, groups,
                       now, cache, price>>

(***************************************************************************)
(* ProductViewSet (PATCH /api/products/<p>/): the price of a product is    *)
(* changed.  Nothing in the orders app listens to it.                      *)
(***************************************************************************)
NewPrices == {3, 5}

\* faulty variant: the items of the product are repriced as well
UpdateProductPriceAndItems(a, p, np) ==
    /\ a \in DOMAIN users
    /\ p \in DOMAIN price
    /\ price' = [price EXCEPT ![p] = np]
    /\ orders' = [o \in DOMAIN orders |->
                    [orders[o] EXCEPT !.items =
                        [i \in 1..Len(orders[o].items) |->
                            IF orders[o].items[i].product = p
                            THEN OrderItemSave([orders[o].items[i] EXCEPT
                                                    !.unit_price = np])
                            ELSE orders[o].items[i]]]]
    /\ lastReq' = Response("update_product", a, 0, "", NoEmail, 200)
    /\ sent' = <<>>
    /\ mail' = <<>>
    /\ UNCHANGED <<users, nextUser, nextOrder, guest, guestOf, conns, groups,
                   now, cache, loaded>>

UpdateProductPrice(a, p, np) ==
    /\ a \in DOMAIN users
    /\ p \in DOMAIN price
    /\ price' = [price EXCEPT ![p] = np]
    /\ lastReq' = Response("update_product", a, 0, "", NoEmail, 200)
    /\ sent' = <<>>
    /\ mail' = <<>>
    /\ UNCHANGED <<users, orders, nextUser, nextOrder, guest, guestOf, conns, groups,
                   now, cache, loaded>>

(***************************************************************************)
(* Django admin (admin.py), open to is_staff users: delete an order, and   *)
(* change or delete one order item through OrderItemAdmin.                 *)
(***************************************************************************)
Without(f, k) == [x \in DOMAIN f \ {k} |-> f[x]]

RemoveAt(seq, i) ==
    [j \in 1..(Len(seq) - 1) |-> IF j < i THEN seq[j] ELSE seq[j + 1]]

AdminDeleteOrder(a, o) ==
    /\ a \in DOMAIN users /\ users[a].is_staff
    /\ o \in DOMAIN orders
    /\ orders' = Without(orders, o)
    /\ sent' = order_deleted_notification(o, orders[o])
    /\ mail' = <<>>
    /\ lastReq' = Response("admin_delete", a, o, "", NoEmail, 200)
    /\ UNCHANGED <<users, nextUser, nextOrder, guest, guestOf, conns, groups, now, cache, price, loaded>>

\* the change form of OrderAdmin: 'status' is an editable field, offered for
\* every order whatever its status and validated against STATUS_CHOICES; the
\* other fields are submitted as they were
AdminSaveOrder(a, o, st) ==
    /\ a \in DOMAIN users /\ users[a].is_staff
    /\ o \in DOMAIN orders
    /\ st \in STATUS_CHOICES
    /\ LET row == [orders[o] EXCEPT !.status = st]
       IN  /\ orders' = [orders EXCEPT ![o] = row]
           /\ sent' = order_notification(o, row, FALSE)
    /\ mail' = <<>>
    /\ lastReq' = Response("admin_save_order", a, o, st, NoEmail, 200)
    /\ UNCHANGED <<users, nextUser, nextOrder, guest, guestOf, conns, groups, now, cache, price, loaded>>

AdminSaveItem(a, o, i, q, up) ==
    /\ a \in DOMAIN users /\ users[a].is_staff
    /\ o \in DOMAIN orders
    /\ i \in 1..Len(orders[o].items)
    /\ orders' = [orders EXCEPT ![o].items[i] =
                     OrderItemSave([@ EXCEPT !.quantity = q, !.unit_price = up])]
    /\ sent' = <<>>
    /\ mail' = <<>>
    /\ lastReq' = Response("admin_save_item", a, o, "", NoEmail, 200)
    /\ UNCHANGED <<users, nextUser, nextOrder, guest, guestOf, conns, groups, now, cache, price, loaded>>

AdminDeleteItem(a, o, i) ==
    /\ a \in DOMAIN users /\ users[a].is_staff
    /\ o \in DOMAIN orders
    /\ i \in 1..Len(orders[o].items)
    /\ orders' = [orders EXCEPT ![o].items = RemoveAt(@, i)]
    /\ sent' = <<>>
    /\ mail' = <<>>
    /\ lastReq' = Response("admin_delete_item", a, o, "", NoEmail, 200)
    /\ UNCHANGED <<users, nextUser, nextOrder, guest, guestOf, conns, groups, now, cache, price, loaded>>

(***************************************************************************)
(* consumers.OrderConsumer.  A connection presents no token, a token that  *)
(* AccessToken or the user lookup refuses, or the valid token of a user.   *)
(* close() in connect is followed by the disconnect handler, as is the     *)
(* client's closing of an open connection; a closed slot stands for the    *)
(* next connection, which gets a consumer of its own.                      *)
(***************************************************************************)
Conns  == 1..MaxConns
NoToken == <<"", 0>>
Tokens  == {NoToken, <<"invalid", 0>>} \cup {<<"jwt", u>> : u \in 1..MaxUsers}

\* a text frame by what json.loads makes of it: an object (with its 'type'
\* and 'timestamp', "" and 0 when the key is absent), another JSON value, or
\* text that is not JSON
NoFrame == [json |-> "", type |-> "", timestamp |-> 0]
Frames ==
    { [json |-> "object", type |-> t, timestamp |-> ts] :
          t \in {"ping", "subscribe", ""}, ts \in {0, 7} }
    \cup { [json |-> "array", type |-> "", timestamp |-> 0],
           [json |-> "invalid", type |-> "", timestamp |-> 0] }

\* inbound: the last frame received; out: the frames sent in reply to it
NewConsumer == [state |-> "new", user |-> 0, role |-> "",
                inbound |-> NoFrame, out |-> <<>>]

\* authenticate_user: the user of a valid token, 0 for None
authenticate_user(token) ==
    IF token[1] # "jwt" THEN 0
    ELSE IF token[2] \in DOMAIN users THEN token[2] ELSE 0

StaffRoles == {"boss", "employe"}

Connect(c, token) ==
    /\ conns[c].state \in {"new", "closed"}
    /\ LET user == authenticate_user(token)
       IN  IF token = NoToken \/ user = 0
           THEN /\ conns' = [conns EXCEPT ![c] = [NewConsumer EXCEPT !.state = "closing"]]
                /\ groups' = groups
           ELSE /\ conns' = [conns EXCEPT ![c] =
                                [state |-> "open", user |-> user,
                                 role |-> users[user].role,
                                 inbound |-> NoFrame, out |-> <<>>]]
                /\ groups' = groups
                               \cup (IF users[user].role \in StaffRoles
                                     THEN {<<StaffGroup, c>>} ELSE {})
                               \cup {<<UserGroup(user), c>>}
    /\ UNCHANGED <<users, orders, nextUser, nextOrder, guest, guestOf,
                   sent, mail, lastReq, now, cache, price, loaded>>

(***************************************************************************)
(* OrderConsumer.receive(text_data).  json.loads raising JSONDecodeError   *)
(* is answered with an 'error' frame.  data.get on a JSON value that is no *)
(* object raises AttributeError, which receive does not catch: the         *)
(* consumer ends with the exception, the server closes the connection and  *)
(* disconnect() is not run (state "failed").                               *)
(***************************************************************************)
Receive(c, m) ==
    /\ conns[c].state = "open"
    /\ conns' = [conns EXCEPT ![c] =
          IF m.json = "invalid"
          THEN [@ EXCEPT !.inbound = m,
                         !.out = << [type |-> "error", timestamp |-> 0,
                                     message |-> "Invalid JSON format"] >>]
          ELSE IF m.json # "object"
          THEN [@ EXCEPT !.inbound = m, !.out = <<>>, !.state = "failed"]
          ELSE IF m.type = "ping"
          THEN [@ EXCEPT !.inbound = m,
                         !.out = << [type |-> "pong", timestamp |-> m.timestamp,
                                     message |-> ""] >>]
          ELSE [@ EXCEPT !.inbound = m, !.out = <<>>]]
    /\ UNCHANGED <<users, orders, nextUser, nextOrder, guest, guestOf,
                   sent, mail, lastReq, groups, now, cache, price, loaded>>

\* faulty variant: the staff group is not left
DisconnectKeepsStaffGroup(c) ==
    /\ conns[c].state \in {"open", "closing"}
    /\ conns' = [conns EXCEPT ![c].state = "closed"]
    /\ groups' = IF conns[c].user # 0
                 THEN groups \ {<<UserGroup(conns[c].user), c>>}
                 ELSE groups
    /\ UNCHANGED <<users, orders, nextUser, nextOrder, guest, guestOf,
                   sent, mail, lastReq, now, cache, price, loaded>>

Disconnect(c) ==
    /\ conns[c].state \in {"open", "closing"}
    /\ conns' = [conns EXCEPT ![c].state = "closed"]
    /\ groups' = IF conns[c].user # 0
                 THEN (groups \ (IF conns[c].role \in StaffRoles
                                 THEN {<<StaffGroup, c>>} ELSE {}))
                      \ {<<UserGroup(conns[c].user), c>>}
                 ELSE groups
    /\ UNCHANGED <<users, orders, nextUser, nextOrder, guest, guestOf,
                   sent, mail, lastReq, now, cache, price, loaded>>

(***************************************************************************)
(* Initial state: a client and a superuser, both made by create_user /     *)
(* create_superuser; no orders.                                            *)
(***************************************************************************)
Init ==
    /\ users = (1 :> [email |-> <<"c", "y.com">>, role |-> "client",
                      is_staff |-> FALSE, phone |-> "p1"]) @@
               (2 :> [email |-> <<"b", "y.com">>, role |-> "boss",
                      is_staff |-> TRUE, phone |-> "p1"])
    /\ orders = << >>
    /\ nextUser = 3
    /\ nextOrder = 1
    /\ guest = [p \in Procs |-> Idle]
    /\ guestOf = [e \in GuestEmails |-> 0]
    /\ sent = <<>>
    /\ mail = <<>>
    /\ lastReq = Response("none", 0, 0, "", NoEmail, 0)
    /\ conns = [c \in Conns |-> NewConsumer]
    /\ groups = {}
    /\ now = 0
    /\ cache = [ip \in IPs |-> <<>>]
    /\ price = [p \in DOMAIN Catalog |-> Catalog[p].price]
    /\ loaded = [p \in Procs |-> NoRequest]

UserIds  == 1..MaxUsers
OrderIds == 1..MaxOrders

\* the order API together with one guest checkout at a time and the admin
Next ==
    \/ \E a \in UserIds, items \in ItemLists : CreateOrder(a, items)
    \/ \E a \in UserIds, o \in OrderIds, v \in PatchValues : PartialUpdate(a, o, v)
    \/ \E a \in UserIds, o \in OrderIds : Cancel(a, o)
    \/ \E e \in GuestEmails, c \in BOOLEAN, ph \in Phones, items \in ItemLists :
          GuestCheckout(1, e, c, ph, items)
    \/ \E a \in UserIds, o \in OrderIds : AdminDeleteOrder(a, o)

Spec == Init /\ [][Next]_vars

\* order creation and the admin's item edits
NextItems ==
    \/ \E a \in UserIds, items \in ItemLists : CreateOrder(a, items)
    \/ \E a \in UserIds, o \in OrderIds, i \in 1..2,
          q \in AdminQuantities, up \in AdminPrices : AdminSaveItem(a, o, i, q, up)
    \/ \E a \in UserIds, o \in OrderIds, i \in 1..2 : AdminDeleteItem(a, o, i)

SpecItems == Init /\ [][NextItems]_vars

\* concurrent guest checkouts
NextGuest ==
    \/ \E p \in Procs, e \in GuestEmails, c \in BOOLEAN : GuestLookup(p, e, c)
    \/ \E p \in Procs, ph \in Phones, items \in ItemLists : GuestCommit(p, ph, items)

SpecGuest == Init /\ [][NextGuest]_vars

\* the requests of authenticated users, reads included
NextRead ==
    \/ \E a \in UserIds, items \in ItemLists : CreateOrder(a, items)
    \/ \E a \in UserIds, o \in OrderIds, v \in PatchValues : PartialUpdate(a, o, v)
    \/ \E a \in UserIds, o \in OrderIds : Cancel(a, o)
    \/ \E a \in UserIds, o \in OrderIds : Retrieve(a, o)
    \/ \E a \in UserIds : List(a)

SpecRead == Init /\ [][NextRead]_vars

\* the writing requests, each with and without a failing channel layer
NextPublish ==
    \/ \E a \in UserIds, items \in ItemLists : CreateOrder(a, items)
    \/ \E a \in UserIds, o \in OrderIds, v \in PatchValues : PartialUpdate(a, o, v)
    \/ \E a \in UserIds, o \in OrderIds : Cancel(a, o)
    \/ \E e \in GuestEmails, c \in BOOLEAN, ph \in Phones, items \in ItemLists :
          GuestCheckout(1, e, c, ph, items)
    \/ \E a \in UserIds, items \in ItemLists : CreateOrderPublishRaises(a, items)
    \/ \E a \in UserIds, o \in OrderIds, v \in PatchValues :
          PartialUpdatePublishRaises(a, o, v)
    \/ \E a \in UserIds, o \in OrderIds : CancelPublishRaises(a, o)
    \/ \E e \in GuestEmails, c \in BOOLEAN, items \in ItemLists :
          GuestCheckoutPublishRaises(1, e, c, items)

SpecPublish == Init /\ [][NextPublish]_vars

\* the requests that start an e-mail thread, and the threads
NextMail ==
    \/ \E a \in UserIds, items \in ItemLists : CreateOrder(a, items)
    \/ \E a \in UserIds, o \in OrderIds : Cancel(a, o)
    \/ \E e \in GuestEmails, c \in BOOLEAN, ph \in Phones, items \in ItemLists :
          GuestCheckout(1, e, c, ph, items)
    \/ \E a \in UserIds, configured \in BOOLEAN, given \in BOOLEAN :
          SendConfirmation(a, configured, given)
    \/ \E i \in 1..Len(mail) : EmailTaskSucceeds(i)
    \/ \E i \in 1..Len(mail) : EmailTaskRaises(i)

SpecMail == Init /\ [][NextMail]_vars

\* websocket connections, with an employee and a guest registered as well
InitWs ==
    /\ users = (1 :> [email |-> <<"c", "y.com">>, role |-> "client",
                      is_staff |-> FALSE, phone |-> "p1"]) @@
               (2 :> [email |-> <<"b", "y.com">>, role |-> "boss",
                      is_staff |-> TRUE, phone |-> "p1"]) @@
               (3 :> [email |-> <<"e", "y.com">>, role |-> "employe",
                      is_staff |-> FALSE, phone |-> "p1"]) @@
               (4 :> [email |-> <<"g", "y.com">>, role |-> "guest",
                      is_staff |-> FALSE, phone |-> "p1"])
    /\ orders = << >>
    /\ nextUser = 5
    /\ nextOrder = 1
    /\ guest = [p \in Procs |-> Idle]
    /\ guestOf = [e \in GuestEmails |-> 0]
    /\ sent = <<>>
    /\ mail = <<>>
    /\ lastReq = Response("none", 0, 0, "", NoEmail, 0)
    /\ conns = [c \in Conns |-> NewConsumer]
    /\ groups = {}
    /\ now = 0
    /\ cache = [ip \in IPs |-> <<>>]
    /\ price = [p \in DOMAIN Catalog |-> Catalog[p].price]
    /\ loaded = [p \in Procs |-> NoRequest]

NextWs ==
    \/ \E c \in Conns, token \in Tokens : Connect(c, token)
    \/ \E c \in Conns : Disconnect(c)

SpecWs == InitWs /\ [][NextWs]_vars

\* two connections with the frames they receive
FrameConns == {1, 2}

NextReceive ==
    \/ \E c \in FrameConns, token \in Tokens : Connect(c, token)
    \/ \E c \in FrameConns : Disconnect(c)
    \/ \E c \in FrameConns, m \in Frames : Receive(c, m)

SpecReceive == InitWs /\ [][NextReceive]_vars

\* guest checkouts of two callers, with and without a token, as time passes
ThrottleEmails == { <<"g", "y.com">> }
ThrottleItems  == { <<>>, << [product |-> 2, quantity |-> 1] >> }

NextThrottle ==
    \/ \E ip \in IPs, a \in 0..MaxUsers, e \in ThrottleEmails, c \in BOOLEAN,
          items \in ThrottleItems : ThrottledGuestCheckout(ip, a, e, c, "p1", items)
    \/ Tick

SpecThrottle == Init /\ [][NextThrottle]_vars

\* status updates with any submitted text
NextStatus ==
    \/ \E a \in UserIds, items \in ItemLists : CreateOrder(a, items)
    \/ \E a \in UserIds, o \in OrderIds, v \in AnyPatchValues : PartialUpdate(a, o, v)
    \/ \E a \in UserIds, o \in OrderIds : Cancel(a, o)

SpecStatus == Init /\ [][NextStatus]_vars

\* order creation and price changes
NextPrice ==
    \/ \E a \in UserIds, items \in ItemLists : CreateOrder(a, items)
    \/ \E a \in UserIds, p \in DOMAIN Catalog, np \in NewPrices :
          UpdateProductPrice(a, p, np)

SpecPrice == Init /\ [][NextPrice]_vars

\* two workers serving status requests, each in two database accesses
RaceItems == { << [product |-> 1, quantity |-> 2] >> }

NextRace ==
    \/ \E a \in UserIds, items \in RaceItems : CreateOrder(a, items)
    \/ \E p \in Procs, a \in UserIds, o \in OrderIds, v \in PatchValues :
          LoadPartialUpdate(p, a, o, v)
    \/ \E p \in Procs, a \in UserIds, o \in OrderIds : LoadCancel(p, a, o)
    \/ \E p \in Procs : FinishPartialUpdate(p)
    \/ \E p \in Procs : FinishCancel(p)

SpecRace == Init /\ [][NextRace]_vars

\* guest checkouts, body and commit apart, and the reads of other clients
NextCommit ==
    \/ \E e \in GuestEmails, c \in BOOLEAN, ph \in Phones, items \in ItemLists :
          GuestRunsInTransaction(1, e, c, ph, items)
    \/ GuestTransactionCommits(1)
    \/ \E a \in UserIds, o \in OrderIds : Retrieve(a, o)
    \/ \E a \in UserIds : List(a)

SpecCommit == Init /\ [][NextCommit]_vars

\* status changes through the API and through the admin
NextAdmin ==
    \/ \E a \in UserIds, items \in ItemLists : CreateOrder(a, items)
    \/ \E a \in UserIds, o \in OrderIds, v \in PatchValues : PartialUpdate(a, o, v)
    \/ \E a \in UserIds, o \in OrderIds : Cancel(a, o)
    \/ \E a \in UserIds, o \in OrderIds, st \in STATUS_CHOICES :
          AdminSaveOrder(a, o, st)

SpecAdmin == Init /\ [][NextAdmin]_vars

(***************************************************************************)
(*                              Properties                                 *)
(***************************************************************************)
IsStaff(a) == a \in DOMAIN users /\ users[a].is_staff

\* C1: a PATCH or cancel issued by a non-staff actor either leaves every
\* order as it was and publishes nothing, or is the owner's PATCH of a
\* draft/pending order to pending, or the owner's cancel of a
\* pending/confirmed order; a create or guest checkout changes no order that
\* already exists.
C1_NonStaffTransitions ==
    [][LET r == lastReq'
           o == r.order
       IN  /\ (r.op \in {"partial_update", "cancel"} /\ ~IsStaff(r.actor)) =>
                \/ orders' = orders /\ sent' = <<>>
                \/ /\ r.op = "partial_update"
                   /\ o \in DOMAIN orders
                   /\ orders[o].user = r.actor
                   /\ orders[o].status \in {"draft", "pending"}
                   /\ orders' = [orders EXCEPT ![o].status = "pending"]
                \/ /\ r.op = "cancel"
                   /\ o \in DOMAIN orders
                   /\ orders[o].user = r.actor
                   /\ orders[o].status \in {"pending", "confirmed"}
                   /\ orders' = [orders EXCEPT ![o].status = "cancelled"]
           /\ (r.op \in {"create", "guest_checkout"}) =>
                \A x \in DOMAIN orders :
                    x \in DOMAIN orders' /\ orders'[x] = orders[x]
      ]_vars

\* C1 witness: the owner of a pending order, not staff, was refused a PATCH
\* to another status and the order is still pending.
C1_Witness ==
    /\ lastReq.op = "partial_update"
    /\ lastReq.code = 403
    /\ lastReq.arg = "completed"
    /\ ~IsStaff(lastReq.actor)
    /\ lastReq.order \in DOMAIN orders
    /\ orders[lastReq.order].user = lastReq.actor
    /\ orders[lastReq.order].status = "pending"

\* C2: the stored total of every order equals the sum of the subtotals of
\* its current items, after creation and after every item change or removal.
C2_TotalIsSumOfSubtotals ==
    \A o \in DOMAIN orders :
        orders[o].total_price = SumSubtotals(orders[o].items)

\* C3: every stored order item has subtotal = quantity * unit_price.
C3_SubtotalIsQuantityTimesPrice ==
    \A o \in DOMAIN orders :
        \A i \in 1..Len(orders[o].items) :
            orders[o].items[i].subtotal =
                orders[o].items[i].quantity * orders[o].items[i].unit_price

\* C3 witness: an item whose quantity and unit price were both changed in
\* the admin after creation.
C3_Witness ==
    /\ lastReq.op = "admin_save_item"
    /\ \E o \in DOMAIN orders :
          /\ Len(orders[o].items) = 2
          /\ orders[o].items[1].quantity = 1
          /\ orders[o].items[1].unit_price = 3
          /\ orders[o].items[1].subtotal = 3

\* C4: no message of a step is about an order whose status is draft when
\* the signal handler runs: for a save the status just written, for a
\* delete the status of the row that is removed.
C4_NothingPublishedForDraft ==
    [][\A i \in 1..Len(sent') :
          LET d == sent'[i].data
          IN  IF d.action = "deleted"
              THEN orders[d.order_id].status # "draft"
              ELSE orders'[d.order_id].status # "draft"
      ]_vars

\* C5: a successful create, guest checkout, owner confirmation, owner cancel
\* or staff status update that leaves the order in a status other than draft
\* has published exactly one message to the staff group and exactly one to
\* the owner's group.
C5_OneEventPerRequest ==
    LET r == lastReq
        ToStaff == {i \in 1..Len(sent) : sent[i].group = StaffGroup}
        ToOwner == {i \in 1..Len(sent) :
                       sent[i].group = UserGroup(orders[r.order].user)}
    IN  ( /\ r.op \in {"create", "guest_checkout", "partial_update", "cancel"}
          /\ r.code \in {200, 201}
          /\ r.op = "partial_update" => r.arg # NoKey
          /\ r.order \in DOMAIN orders
          /\ orders[r.order].status # "draft" )
        => /\ Cardinality(ToStaff) = 1
           /\ Cardinality(ToOwner) = 1

\* the account whose stored e-mail is this address (domain case aside)
AccountsOf(e) ==
    {u \in DOMAIN users : normalize_email(users[u].email) = normalize_email(e)}

\* C6: a guest checkout with valid items, submitted with an e-mail that an
\* earlier guest checkout succeeded with, succeeds for the same principal,
\* and there is exactly one user record for that e-mail.
C6_SameGuestResolvedTwice ==
    [][\A p \in Procs :
          ( /\ guest[p].pc = "resolved"
            /\ guest[p].prior # 0
            /\ guest'[p].pc = "idle"
            /\ lastReq'.code # 400 )
          => /\ lastReq'.code = 201
             /\ orders'[lastReq'.order].user = guest[p].prior
             /\ Cardinality(AccountsOf(guest[p].email)) = 1
      ]_vars

\* C7: a guest checkout with complete guest fields whose e-mail belongs to
\* an account that is not a guest is answered 409 and changes no row,
\* publishes nothing and starts no e-mail thread.
C7_ConflictWithAccount ==
    [][( /\ lastReq'.op = "guest_checkout"
         /\ lastReq'.code \notin {0, 400}
         /\ \E u \in AccountsOf(lastReq'.email) : users[u].role # "guest" )
       => /\ lastReq'.code = 409
          /\ users' = users
          /\ orders' = orders
          /\ sent' = <<>>
          /\ mail' = <<>>
      ]_vars

\* C8: no two user rows hold the same e-mail.
C8_OneAccountPerEmail ==
    \A u1, u2 \in DOMAIN users :
        users[u1].email = users[u2].email => u1 = u2

\* C8 witness: a guest checkout that found no account for its e-mail is
\* still running while another request has committed a guest account with
\* that e-mail.
C8_Witness ==
    \E p \in Procs :
        /\ guest[p].pc = "resolved"
        /\ guest[p].existing = 0
        /\ guest[p].email = normalize_email(guest[p].email)
        /\ \E u \in DOMAIN users :
              /\ users[u].role = "guest"
              /\ users[u].email = guest[p].email

\* C9: a guest checkout with valid items that found no account for its
\* (lower-case) e-mail and commits after another request created the guest
\* account for it, succeeds with an order owned by that guest account.
C9_LoserReusesWinner ==
    [][\A p \in Procs :
          ( /\ guest[p].pc = "resolved"
            /\ guest[p].existing = 0
            /\ guest[p].email = normalize_email(guest[p].email)
            /\ \E u \in DOMAIN users :
                  users[u].role = "guest" /\ users[u].email = guest[p].email
            /\ guest'[p].pc = "idle"
            /\ lastReq'.code # 400 )
          => /\ lastReq'.code = 201
             /\ users[orders'[lastReq'.order].user].email = guest[p].email
      ]_vars

\* C10: a cancel by the owner of the order sets pending/confirmed to
\* cancelled; from draft, completed or cancelled it is refused, changes no
\* order and starts no e-mail thread.
C10_OwnerCancel ==
    [][LET r == lastReq'
           o == r.order
       IN  (r.op = "cancel" /\ o \in DOMAIN orders /\ orders[o].user = r.actor) =>
               IF orders[o].status \in {"pending", "confirmed"}
               THEN /\ r.code = 200
                    /\ orders'[o].status = "cancelled"
               ELSE /\ r.code # 200
                    /\ orders' = orders
                    /\ mail' = <<>>
      ]_vars

\* C10 witness: the owner's cancel of a completed order was refused.
C10_Witness ==
    /\ lastReq.op = "cancel"
    /\ lastReq.code = 400
    /\ lastReq.order \in DOMAIN orders
    /\ orders[lastReq.order].user = lastReq.actor
    /\ orders[lastReq.order].status = "completed"

\* C11: a PATCH with status pending by the owner of the order, not staff,
\* succeeds whenever the order is in draft or in pending, and leaves the
\* order in pending.
C11_OwnerConfirms ==
    [][LET r == lastReq'
           o == r.order
       IN  ( /\ r.op = "partial_update"
             /\ r.arg = "pending"
             /\ ~IsStaff(r.actor)
             /\ o \in DOMAIN orders
             /\ orders[o].user = r.actor
             /\ orders[o].status \in {"draft", "pending"} )
           => /\ r.code = 200
              /\ orders'[o].status = "pending"
      ]_vars

\* C12: a retrieve, PATCH or cancel of an existing order by a non-staff
\* actor that is not answered 200 is answered 403.
C12_RefusalsAreForbidden ==
    LET r == lastReq
    IN  ( /\ r.op \in {"retrieve", "partial_update", "cancel"}
          /\ ~IsStaff(r.actor)
          /\ r.order \in DOMAIN orders
          /\ r.code # 200 )
        => r.code = 403

\* C13: every published save message carries action 'created' if its save
\* inserted the order row (the first save of a create or guest checkout,
\* messages 1 and 2 of the step) or the saved status is pending, and
\* 'updated' otherwise.
C13_ActionOfSaveEvent ==
    \A i \in 1..Len(sent) :
        LET d        == sent[i].data
            inserted == lastReq.op \in {"create", "guest_checkout"} /\ i <= 2
        IN  d.action # "deleted" =>
                d.action = IF inserted \/ d.status = "pending"
                           THEN "created" ELSE "updated"

\* C13 witness: the owner's confirmation of a draft order has just been
\* published to the staff group as 'created'.
C13_Witness ==
    /\ lastReq.op = "partial_update"
    /\ lastReq.code = 200
    /\ ~IsStaff(lastReq.actor)
    /\ lastReq.arg = "pending"
    /\ Len(sent) = 2
    /\ sent[1].group = StaffGroup
    /\ sent[1].data.action = "created"

\* C14: every message of a step goes to the staff group or to the group of
\* the owner of the order it is about, and the same payload goes to the
\* other of the two as well; no message goes to another user's group.
C14_StaffAndOwnerOnly ==
    [][\A i \in 1..Len(sent') :
          LET d     == sent'[i].data
              owner == IF d.action = "deleted" THEN orders[d.order_id].user
                       ELSE orders'[d.order_id].user
              other == IF sent'[i].group = StaffGroup THEN UserGroup(owner)
                       ELSE StaffGroup
          IN  /\ sent'[i].group \in {StaffGroup, UserGroup(owner)}
              /\ \E j \in 1..Len(sent') :
                    sent'[j].group = other /\ sent'[j].data = d
      ]_vars

\* C14 witness: a staff member's status update of the order of another
\* user has been published to the staff group and to that user's group.
C14_Witness ==
    /\ lastReq.op = "partial_update"
    /\ lastReq.code = 200
    /\ IsStaff(lastReq.actor)
    /\ lastReq.order \in DOMAIN orders
    /\ orders[lastReq.order].user # lastReq.actor
    /\ Len(sent) = 2
    /\ sent[1].group = StaffGroup
    /\ sent[2].group = UserGroup(orders[lastReq.order].user)
    /\ sent[1].data = sent[2].data

\* C15: a create, guest checkout, PATCH or cancel during which group_send
\* raised still answers 200/201, and the order it was about is stored with
\* its items (for PATCH and cancel: with the new status).
C15_PublishFailureSwallowed ==
    LET r == lastReq
    IN  r.raised = "publish" =>
            /\ r.code \in {200, 201}
            /\ r.order \in DOMAIN orders
            /\ orders[r.order].items # <<>>

\* C16: every stored order has at least one item and a total equal to the
\* sum of its items' subtotals, and every published save message reports at
\* least one item and that total.
C16_NoPartialOrderObservable ==
    /\ \A o \in DOMAIN orders :
          /\ orders[o].items # <<>>
          /\ orders[o].total_price = SumSubtotals(orders[o].items)
    /\ \A i \in 1..Len(sent) :
          LET d == sent[i].data
          IN  d.action # "deleted" =>
                  /\ d.items_count >= 1
                  /\ d.total_price = SumSubtotals(orders[d.order_id].items)

\* C17: a guest checkout that succeeds has published the messages of the
\* save that set the order to pending and no message before them (the order
\* was a draft until then); a guest checkout that fails has published
\* nothing.
C17_GuestDraftFirst ==
    LET r == lastReq
    IN  r.op = "guest_checkout" =>
            IF r.code = 201
            THEN sent = order_notification(r.order, orders[r.order], FALSE)
            ELSE sent = <<>>

\* C18: a list answers a non-staff user with exactly their own orders and a
\* staff user with exactly the orders that are not drafts; no list or
\* retrieve hands a draft to anyone but its owner; the owner of a draft gets
\* it from list and from retrieve.
C18_ListingVisibility ==
    LET r      == lastReq
        Drafts == {o \in DOMAIN orders : orders[o].status = "draft"}
        Own    == {o \in DOMAIN orders : orders[o].user = r.actor}
    IN  /\ r.op = "list" =>
              /\ r.rows = IF IsStaff(r.actor) THEN DOMAIN orders \ Drafts ELSE Own
              /\ (Drafts \cap Own) \subseteq r.rows
        /\ r.op \in {"list", "retrieve"} =>
              (r.rows \cap Drafts) \subseteq Own
        /\ (r.op = "retrieve" /\ r.order \in Drafts \cap Own) =>
              r.code = 200 /\ r.rows = {r.order}

\* C19: a request that starts an e-mail thread answers 200/201 at once, and
\* the step in which the thread ends, with or without an exception, changes
\* neither the response nor any order or user row and publishes nothing; so
\* response and rows are the same whether the thread succeeds, raises or
\* never ends.
C19_EmailTaskIsolated ==
    [][/\ (mail' # <<>> /\ lastReq' # lastReq) =>
              /\ lastReq'.op \in {"cancel", "guest_checkout", "send_confirmation"}
              /\ lastReq'.code \in {200, 201}
              /\ \A i \in 1..Len(mail') : mail'[i].state = "started"
       /\ \A i \in 1..Len(mail) :
              ( /\ Len(mail') = Len(mail)
                /\ mail[i].state = "started"
                /\ mail'[i].state # "started" )
              => /\ lastReq' = lastReq
                 /\ orders' = orders
                 /\ users' = users
                 /\ sent' = <<>>
      ]_vars

\* C19 witness: the e-mail thread of a cancel has raised; the response is
\* still 200 and the order is cancelled.
C19_Witness ==
    /\ lastReq.op = "cancel"
    /\ lastReq.code = 200
    /\ Len(mail) = 1
    /\ mail[1].task = "send_cancellation_notifications"
    /\ mail[1].state = "failed"
    /\ orders[lastReq.order].status = "cancelled"

\* C20: a connection is in the staff group iff it is open and authenticated
\* as a user whose role is boss or employe, and in the group of user u iff
\* it is open and authenticated as u; so a connection without a valid token
\* and a connection that has disconnected are in no group.
C20_GroupMembership ==
    \A c \in Conns :
        LET open == conns[c].state = "open" /\ conns[c].user \in DOMAIN users
        IN  /\ (<<StaffGroup, c>> \in groups) <=>
                  (open /\ users[conns[c].user].role \in {"boss", "employe"})
            /\ \A u \in 1..MaxUsers :
                  (<<UserGroup(u), c>> \in groups) <=> (open /\ conns[c].user = u)
            /\ \A m \in groups : m[2] = c => m[1] \in {StaffGroup} \cup
                                                 {UserGroup(u) : u \in 1..MaxUsers}

\* C20 witness: a boss has disconnected, an employee is connected, and a
\* connection without a valid token was refused.
C20_Witness ==
    \E c1, c2, c3 \in Conns :
        /\ conns[c1].state = "closed" /\ conns[c1].role = "boss"
        /\ conns[c2].state = "open" /\ conns[c2].role = "employe"
        /\ <<StaffGroup, c2>> \in groups
        /\ conns[c3].state = "closing"

\* C21: every guest-checkout request that is let through to the view is
\* counted for some caller IP that had fewer than 5 counted requests in the
\* last hour; a refused request changes no row, publishes nothing and
\* starts no e-mail thread.
C21_QuotaPerCaller ==
    [][(now' = now /\ lastReq'.op = "guest_checkout") =>
          IF lastReq'.code = 429
          THEN /\ users' = users /\ orders' = orders
               /\ sent' = <<>> /\ mail' = <<>>
          ELSE \E ip \in IPs :
                  /\ Len(DropExpired(cache[ip], now)) < 5
                  /\ cache'[ip] = <<now>> \o DropExpired(cache[ip], now)
      ]_vars

\* C22: a create or guest checkout whose items fail validation (none, an
\* unknown product, an unavailable product, a quantity below 1) is answered
\* 400 with the failure named, writes no row, publishes nothing and starts
\* no e-mail thread; and every order a create or guest checkout inserts has
\* at least one item, each of an existing, available product with a
\* quantity of at least 1.
C22_InvalidItemsRejected ==
    [][LET r == lastReq'
       IN  r.op \in {"create", "guest_checkout"} =>
             /\ r.detail # "" =>
                   /\ r.detail \in {"empty", "not_found", "not_available", "quantity"}
                   /\ r.code = 400
                   /\ orders' = orders /\ users' = users
                   /\ sent' = <<>> /\ mail' = <<>>
             /\ \A o \in DOMAIN orders' \ DOMAIN orders :
                   /\ orders'[o].items # <<>>
                   /\ \A i \in 1..Len(orders'[o].items) :
                         LET it == orders'[o].items[i]
                         IN  /\ it.product \in DOMAIN Catalog
                             /\ Catalog[it.product].available
                             /\ it.quantity >= 1
      ]_vars

\* C22 witness: a guest checkout for a new guest was refused because its
\* product is not available, and no guest account is left behind.
C22_Witness ==
    /\ lastReq.op = "guest_checkout"
    /\ lastReq.code = 400
    /\ lastReq.detail = "not_available"
    /\ FindByEmail(users, normalize_email(lastReq.email)) = 0

\* C23: the status of every stored order is one of draft, pending,
\* confirmed, completed, cancelled.
C23_StatusInEnum ==
    \A o \in DOMAIN orders :
        orders[o].status \in {"draft", "pending", "confirmed", "completed", "cancelled"}

\* C24: no step changes the status of an order that is completed or
\* cancelled.
C24_TerminalStatuses ==
    [][\A o \in DOMAIN orders :
          (orders[o].status \in {"completed", "cancelled"} /\ o \in DOMAIN orders')
          => orders'[o].status = orders[o].status
      ]_vars

C26_CancelSeesCommittedStatus ==
    [][(lastReq'.op = "cancel" /\ lastReq'.code = 200 /\ orders' # orders) =>
          OwnerMayCancel(orders[lastReq'.order].status)
      ]_vars

\* C27: every event that was published names an order that is committed,
\* and no e-mail thread was started by a guest checkout whose transaction
\* is still open.
C27_PublishedAfterCommit ==
    /\ \A i \in 1..Len(sent) : sent[i].data.order_id \in DOMAIN orders
    /\ \A p \in Procs : guest[p].pc = "written" => mail = <<>>

\* C28: an order that is a draft is, after any step, still a draft or
\* pending.
C28_DraftOnlyToPending ==
    [][\A o \in DOMAIN orders :
          (orders[o].status = "draft" /\ o \in DOMAIN orders') =>
              orders'[o].status \in {"draft", "pending"}
      ]_vars

\* C29: a connection is in the staff group iff it is open and authenticated
\* as a user the order API treats as staff (is_staff).
C29_StaffGroupIsApiStaff ==
    \A c \in Conns :
        (<<StaffGroup, c>> \in groups) <=>
            (conns[c].state = "open" /\ IsStaff(conns[c].user))

\* C30: a frame received on an open connection leaves the connection open
\* and the channel memberships as they were; the reply is one pong with the
\* timestamp of the frame if the frame is a ping, and nothing otherwise.
C30_OnlyPingAnswered ==
    [][\A c \in Conns :
          (conns[c].state = "open" /\ conns'[c].inbound # conns[c].inbound) =>
              LET m == conns'[c].inbound
              IN  /\ conns'[c].state = "open"
                  /\ groups' = groups
                  /\ conns'[c].out =
                         IF m.json = "object" /\ m.type = "ping"
                         THEN << [type |-> "pong", timestamp |-> m.timestamp,
                                  message |-> ""] >>
                         ELSE <<>>
      ]_vars

====
